---- MODULE Spec2Model ----
(***************************************************************************)
(* Model of backend/idea_analysis.py: a FastAPI service with three         *)
(* endpoints (prompt_to_json, generate_product_brief, complete_analysis)   *)
(* that forward prompts to a chat-completion API and decode the reply.     *)
(*                                                                         *)
(* The completion text is modelled as a sequence of lexical tokens, and    *)
(* the two decoders the code uses (Python's eval in prompt_to_json,        *)
(* json.loads in generate_product_brief) as evaluators over those tokens.  *)
(* The modelled fragment of both languages is: a single scalar token, a    *)
(* call name(), or a flat object {k: v, ...} of scalar tokens.             *)
(***************************************************************************)
EXTENDS Integers, Sequences, FiniteSets, TLC

(***************************************************************************)
(* Bounds of the model and constants of the program.                       *)
(***************************************************************************)
\* Requests the server process handles before the model stops accepting.
MaxRequests == 2
\* Longest choice list a completion response carries.
MaxChoices == 2
\* max_tokens of the facts call and of the brief call.
FactsMaxTokens == 500
BriefMaxTokens == 8000
\* status_code of every HTTPException the handlers raise.
ServerError == 500

(***************************************************************************)
(* Python / JSON values.  Every value is a record of the same shape so     *)
(* that values of different kinds can be compared.  `items` is the         *)
(* insertion-ordered list of <<key, value>> pairs of a dict.               *)
(***************************************************************************)
V(kind, s, items) == [kind |-> kind, s |-> s, items |-> items]
Str(s)      == V("str", s, <<>>)
Num(s)      == V("num", s, <<>>)
Bool(s)     == V("bool", s, <<>>)
NoneV       == V("none", "None", <<>>)
Builtin(s)  == V("builtin", s, <<>>)
Dict(items) == V("dict", "", items)

\* The keys of a dict, as a set of values.
Keys(v) == {v.items[i][1] : i \in 1..Len(v.items)}

\* d[k] = x on an insertion-ordered dict: replace in place, else append.
DictSet(items, k, x) ==
    IF \E i \in 1..Len(items) : items[i][1] = k
    THEN [i \in 1..Len(items) |-> IF items[i][1] = k THEN <<k, x>> ELSE items[i]]
    ELSE Append(items, <<k, x>>)

(***************************************************************************)
(* Tokens of a completion text.                                            *)
(***************************************************************************)
Tok(t, v) == [t |-> t, v |-> v]
LBrace == Tok("punct", "{")
RBrace == Tok("punct", "}")
Colon  == Tok("punct", ":")
Comma  == Tok("punct", ",")
LParen == Tok("punct", "(")
RParen == Tok("punct", ")")
Fence  == Tok("punct", "fence")
DQ(s)   == Tok("dq", s)
SQ(s)   == Tok("sq", s)
NumT(s) == Tok("num", s)
Name(s) == Tok("name", s)

\* Names bound in the namespace eval() runs in (builtins), beyond literals.
PyBuiltins == {"print", "exit"}

\* Outcome of a decoder or of a handler body: exc is "none" or the class of
\* the exception raised; ran says whether text was executed as code.
Ok(v)        == [exc |-> "none", val |-> v, msg |-> "", ran |-> FALSE]
Raised(c, m) == [exc |-> c, val |-> NoneV, msg |-> m, ran |-> FALSE]
Ran(r)       == [r EXCEPT !.ran = TRUE]

\* Exception classes that derive from Exception (what `except Exception`
\* catches); SystemExit derives from BaseException only.
IsException(c) == c \notin {"none", "SystemExit"}

(***************************************************************************)
(* The two decoders.                                                       *)
(***************************************************************************)
\* A Python expression of one token.
PyScalar(tok) ==
    CASE tok.t \in {"dq", "sq"} -> Ok(Str(tok.v))
      [] tok.t = "num" -> Ok(Num(tok.v))
      [] tok.t = "name" ->
            IF tok.v \in {"True", "False"} THEN Ok(Bool(tok.v))
            ELSE IF tok.v = "None" THEN Ok(NoneV)
            ELSE IF tok.v \in PyBuiltins THEN Ok(Builtin(tok.v))
            ELSE Raised("NameError", "name is not defined")
      [] OTHER -> Raised("SyntaxError", "invalid syntax")

\* A JSON document of one token.
JsonScalar(tok) ==
    CASE tok.t = "dq" -> Ok(Str(tok.v))
      [] tok.t = "num" -> Ok(Num(tok.v))
      [] tok.t = "name" ->
            IF tok.v = "true" THEN Ok(Bool("True"))
            ELSE IF tok.v = "false" THEN Ok(Bool("False"))
            ELSE IF tok.v = "null" THEN Ok(NoneV)
            ELSE Raised("JSONDecodeError", "Expecting value")
      [] OTHER -> Raised("JSONDecodeError", "Expecting value")

Scalar(lang, tok) == IF lang = "py" THEN PyScalar(tok) ELSE JsonScalar(tok)

\* The tokens between the braces are key : value pairs separated by commas.
WellFormedPairs(inner) ==
    \/ Len(inner) = 0
    \/ /\ Len(inner) % 4 = 3
       /\ \A j \in 1..Len(inner) :
            CASE j % 4 = 1 -> inner[j].t # "punct"
              [] j % 4 = 2 -> inner[j] = Colon
              [] j % 4 = 3 -> inner[j].t # "punct"
              [] OTHER     -> inner[j] = Comma

NPairs(inner) == (Len(inner) + 1) \div 4
KeyTok(inner, n) == inner[4 * n - 3]
ValTok(inner, n) == inner[4 * n - 1]

\* The dict built from the first n pairs, inserted left to right.
RECURSIVE ObjItems(_, _, _)
ObjItems(lang, inner, n) ==
    IF n = 0 THEN <<>>
    ELSE DictSet(ObjItems(lang, inner, n - 1),
                 Scalar(lang, KeyTok(inner, n)).val,
                 Scalar(lang, ValTok(inner, n)).val)

\* A Python dict display: any evaluable expression may be a key.
PyObject(inner) ==
    IF ~WellFormedPairs(inner) THEN Raised("SyntaxError", "invalid syntax")
    ELSE IF \E n \in 1..NPairs(inner) :
                \/ PyScalar(KeyTok(inner, n)).exc # "none"
                \/ PyScalar(ValTok(inner, n)).exc # "none"
    THEN Raised("NameError", "name is not defined")
    ELSE Ok(Dict(ObjItems("py", inner, NPairs(inner))))

\* A JSON object: keys are double-quoted strings.
JsonObject(inner) ==
    IF ~WellFormedPairs(inner) THEN Raised("JSONDecodeError", "Expecting property name")
    ELSE IF \E n \in 1..NPairs(inner) :
                \/ KeyTok(inner, n).t # "dq"
                \/ JsonScalar(ValTok(inner, n)).exc # "none"
    THEN Raised("JSONDecodeError", "Expecting value")
    ELSE Ok(Dict(ObjItems("json", inner, NPairs(inner))))

IsCall(toks) ==
    Len(toks) = 3 /\ toks[1].t = "name" /\ toks[2] = LParen /\ toks[3] = RParen
IsObject(toks) ==
    Len(toks) >= 2 /\ toks[1] = LBrace /\ toks[Len(toks)] = RBrace

\* Calling the object a name is bound to: this runs code.
PyCall(name) ==
    IF name = "exit" THEN Ran(Raised("SystemExit", ""))
    ELSE IF name = "print" THEN Ran(Ok(NoneV))
    ELSE IF name \in {"True", "False", "None"}
    THEN Raised("TypeError", "object is not callable")
    ELSE Raised("NameError", "name is not defined")

\* eval(message): message is the completion's content, a str or None.
PyEval(content) ==
    IF content.isNone THEN Raised("TypeError", "eval() arg 1 must be a string")
    ELSE LET toks == content.toks IN
         IF Len(toks) = 0 THEN Raised("SyntaxError", "unexpected EOF")
         ELSE IF Len(toks) = 1 THEN PyScalar(toks[1])
         ELSE IF IsCall(toks) THEN PyCall(toks[1].v)
         ELSE IF IsObject(toks) THEN PyObject(SubSeq(toks, 2, Len(toks) - 1))
         ELSE Raised("SyntaxError", "invalid syntax")

\* json.loads(message).
JsonLoads(content) ==
    IF content.isNone THEN Raised("TypeError", "the JSON object must be str")
    ELSE LET toks == content.toks IN
         IF Len(toks) = 0 THEN Raised("JSONDecodeError", "Expecting value")
         ELSE IF Len(toks) = 1 THEN JsonScalar(toks[1])
         ELSE IF IsObject(toks) THEN JsonObject(SubSeq(toks, 2, Len(toks) - 1))
         ELSE Raised("JSONDecodeError", "Extra data")

\* json.dumps(value): strings and keys are written double-quoted.
DumpScalar(v) ==
    CASE v.kind = "str"  -> DQ(v.s)
      [] v.kind = "num"  -> NumT(v.s)
      [] v.kind = "bool" -> Name(IF v.s = "True" THEN "true" ELSE "false")
      [] OTHER           -> Name("null")
DumpKey(k) == IF k.kind \in {"str", "num"} THEN DQ(k.s) ELSE DQ(DumpScalar(k).v)

RECURSIVE DumpPairs(_, _)
DumpPairs(items, n) ==
    IF n = 0 THEN <<>>
    ELSE (IF n = 1 THEN <<>> ELSE DumpPairs(items, n - 1) \o <<Comma>>)
         \o <<DumpKey(items[n][1]), Colon, DumpScalar(items[n][2])>>

\* json.dumps raises TypeError on an object that is no JSON type.
RECURSIVE Serializable(_)
Serializable(v) ==
    /\ v.kind # "builtin"
    /\ \A i \in 1..Len(v.items) :
          Serializable(v.items[i][1]) /\ Serializable(v.items[i][2])

JsonDumps(v) ==
    IF v.kind = "dict" THEN <<LBrace>> \o DumpPairs(v.items, Len(v.items)) \o <<RBrace>>
    ELSE <<DumpScalar(v)>>

(***************************************************************************)
(* Completion texts the model draws the API's replies from.                *)
(***************************************************************************)
Text(toks) == [isNone |-> FALSE, toks |-> toks]
\* message.content of a choice that carries no text.
NoContent == [isNone |-> TRUE, toks |-> <<>>]

FactsJson == Text(<<LBrace,
    DQ("industry"), Colon, DQ("fitness"), Comma,
    DQ("product"), Colon, DQ("habit tracker"), Comma,
    DQ("website"), Colon, DQ("example.com"), Comma,
    DQ("minimum_viable_product"), Colon, DQ("not enough information"),
    RBrace>>)
FactsPython == Text(<<LBrace,
    SQ("industry"), Colon, SQ("fitness"), Comma,
    SQ("product"), Colon, SQ("habit tracker"), Comma,
    SQ("website"), Colon, SQ("example.com"), Comma,
    SQ("minimum_viable_product"), Colon, SQ("habit tracker app"),
    RBrace>>)
FactsNull == Text(<<LBrace,
    DQ("industry"), Colon, DQ("fitness"), Comma,
    DQ("product"), Colon, Name("null"), Comma,
    DQ("website"), Colon, DQ("example.com"), Comma,
    DQ("minimum_viable_product"), Colon, Name("null"),
    RBrace>>)
ErrorObject   == Text(<<LBrace, DQ("error"), Colon, DQ("cannot answer"), RBrace>>)
BriefJson     == Text(<<LBrace, DQ("Problem Statement"), Colon, DQ("people skip workouts"),
                        Comma, DQ("Target Audience"), Colon, DQ("gym members"), RBrace>>)
BuiltinObject == Text(<<LBrace, SQ("industry"), Colon, Name("print"), RBrace>>)
NumberText    == Text(<<NumT("42")>>)
ErrorString   == Text(<<DQ("error: model unavailable")>>)
PlainString   == Text(<<DQ("fitness")>>)
TrueText      == Text(<<Name("true")>>)
Prose         == Text(<<Name("Sure"), Name("here")>>)
Fenced        == Text(<<Fence, LBrace, RBrace, Fence>>)
ExitCall      == Text(<<Name("exit"), LParen, RParen>>)
PrintCall     == Text(<<Name("print"), LParen, RParen>>)
EmptyText     == Text(<<>>)

Contents == {FactsJson, FactsPython, FactsNull, ErrorObject, BriefJson, BuiltinObject,
             NumberText, ErrorString, PlainString, TrueText, Prose, Fenced,
             ExitCall, PrintCall, EmptyText, NoContent}

\* The strings of the model that have "error" as a substring.
ErrorStrings == {"error", "error: model unavailable"}

(***************************************************************************)
(* Requests and the completion API.                                        *)
(***************************************************************************)
\* AnalysisRequest bodies: <<domain, problem, website, mvp>>.
Inputs == {<<"fitness", "people skip workouts", "example.com", "habit tracker app">>,
           <<"", "", "", "">>}
\* ProductBriefRequest.context values: what a JSON request body can carry.
Contexts == {Dict(<<>>),
             Dict(<< <<Str("industry"), Str("fitness")>>, <<Str("product"), NoneV>> >>)}
NoInput == <<>>
NoContext == NoneV

\* What the environment holds under API_KEY once load_dotenv has run.
EnvValues == {[isNone |-> TRUE, s |-> ""], [isNone |-> FALSE, s |-> ""],
              [isNone |-> FALSE, s |-> "sk-test"]}

\* Failures client.chat.completions.create raises: transport and credential.
GatewayErrors == {[exc |-> "APIConnectionError", msg |-> "Connection error."],
                  [exc |-> "AuthenticationError", msg |-> "Incorrect API key provided"]}

RaiseReply(e) == [kind |-> "raise", exc |-> e.exc, msg |-> e.msg, choices |-> <<>>]
Response(choices) == [kind |-> "response", exc |-> "none", msg |-> "", choices |-> choices]
Pending == [kind |-> "pending", exc |-> "none", msg |-> "", choices |-> <<>>]

\* A choice list of n choices whose first is c; the others carry other text.
ChoiceList(c, n) == [i \in 1..n |-> IF i = 1 THEN c ELSE Prose]

Replies == {RaiseReply(e) : e \in GatewayErrors}
           \cup {Response(<<>>)}
           \cup {Response(ChoiceList(c, n)) : c \in Contents, n \in 1..MaxChoices}

(***************************************************************************)
(* load_api_key and the module-level initialisation.                       *)
(***************************************************************************)
\* Variant: only a variable that is not set at all is rejected.
LoadApiKeyUnsetOnly(e) ==
    IF e.isNone
    THEN Raised("RuntimeError", "Error loading API key: API key not found.")
    ELSE Ok(Str(e.s))

LoadApiKey(e) ==
    IF e.isNone \/ e.s = ""
    THEN Raised("RuntimeError", "Error loading API key: API key not found.")
    ELSE Ok(Str(e.s))

(***************************************************************************)
(* prompt_to_json.                                                         *)
(***************************************************************************)
FactsPrompt(fields) == [template |-> "facts", fields |-> fields, context |-> <<>>]

InvalidJsonError ==
    Dict(<< <<Str("error"), Str("Invalid JSON response from the API.")>> >>)
NoResponseMessage ==
    "No response received from the API. Please check the input or try again later."
NoResponseError == Dict(<< <<Str("error"), Str(NoResponseMessage)>> >>)

\* Variant: the inner try/except is missing, so a decode failure propagates.
ParseFactsPropagates(content) == PyEval(content)

\* try: eval(message) / except: the error payload.
ParseFacts(content) ==
    LET r == PyEval(content) IN
    IF r.exc = "none" THEN r ELSE [Ok(InvalidJsonError) EXCEPT !.ran = r.ran]

\* Variant: choices[0] is read without the emptiness test (IndexError).
FactsOfReplyUnguarded(reply) ==
    IF Len(reply.choices) > 0 THEN ParseFacts(reply.choices[1])
    ELSE Raised("IndexError", "list index out of range")

\* if response and response.choices: ... else: ...
FactsOfReply(reply) ==
    IF Len(reply.choices) > 0 THEN ParseFacts(reply.choices[1])
    ELSE Ok(NoResponseError)

\* except Exception as e: raise HTTPException(status_code=500, detail=prefix + str(e))
CatchAsHTTP(r, prefix) ==
    IF IsException(r.exc)
    THEN [Raised("HTTPException", prefix \o r.msg) EXCEPT !.ran = r.ran]
    ELSE r

\* Variant: a failed call is answered like a missing response.
PromptToJsonAfterCallRecovers(reply) ==
    CatchAsHTTP(IF reply.kind = "raise" THEN Ok(NoResponseError)
                ELSE FactsOfReply(reply),
                "Error occurred while getting response from API: ")

\* The handler from the return of client.chat.completions.create on.
PromptToJsonAfterCall(reply) ==
    CatchAsHTTP(IF reply.kind = "raise" THEN Raised(reply.exc, reply.msg)
                ELSE FactsOfReply(reply),
                "Error occurred while getting response from API: ")

(***************************************************************************)
(* generate_product_brief.                                                 *)
(***************************************************************************)
BriefPrompt(context) ==
    [template |-> "brief", fields |-> <<>>, context |-> JsonDumps(context)]

\* The message used when the response has no choices, as tokens.
NoResponseText == Text(<<Name("No"), Name("response"), Name("received"), Name("from"),
                         Name("the"), Name("API"), Tok("punct", ".")>>)

BriefMessage(reply) ==
    IF Len(reply.choices) > 0 THEN reply.choices[1] ELSE NoResponseText

\* Variant: a decode failure is answered with an error payload, as in
\* prompt_to_json.
ParseBriefRecovers(content) ==
    IF JsonLoads(content).exc = "none" THEN JsonLoads(content)
    ELSE Ok(InvalidJsonError)

\* return json.loads(message)
ParseBrief(content) == JsonLoads(content)

\* The handler from the return of client.chat.completions.create on.
GenerateProductBriefAfterCall(reply) ==
    CatchAsHTTP(IF reply.kind = "raise" THEN Raised(reply.exc, reply.msg)
                ELSE ParseBrief(BriefMessage(reply)),
                "Error occurred while generating product brief: ")

\* The handler up to client.chat.completions.create: json.dumps(context) may raise.
GenerateProductBriefBeforeCall(context) ==
    CatchAsHTTP(IF Serializable(context) THEN Ok(NoneV)
                ELSE Raised("TypeError", "Object is not JSON serializable"),
                "Error occurred while generating product brief: ")

(***************************************************************************)
(* complete_analysis.                                                      *)
(***************************************************************************)
\* str(e) of an HTTPException.
HTTPExceptionStr(detail) == "500: " \o detail

\* except Exception as e: raise HTTPException(status_code=500, detail=str(e))
CatchAll(r) ==
    IF IsException(r.exc)
    THEN [Raised("HTTPException",
                 IF r.exc = "HTTPException" THEN HTTPExceptionStr(r.msg) ELSE r.msg)
          EXCEPT !.ran = r.ran]
    ELSE r

\* Variant: the membership test names another key.
ContainsErrorsKey(v) ==
    CASE v.kind = "dict" -> Ok(Bool(IF Str("errors") \in Keys(v) THEN "True" ELSE "False"))
      [] v.kind = "str"  -> Ok(Bool("False"))
      [] OTHER           -> Raised("TypeError", "argument is not iterable")

\* "error" in json_response
ContainsError(v) ==
    CASE v.kind = "dict" -> Ok(Bool(IF Str("error") \in Keys(v) THEN "True" ELSE "False"))
      [] v.kind = "str"  -> Ok(Bool(IF v.s \in ErrorStrings THEN "True" ELSE "False"))
      [] OTHER           -> Raised("TypeError", "argument is not iterable")

\* ProductBriefRequest(context=json_response, website_overview=...): context: Dict
BriefRequest(v) ==
    IF v.kind = "dict" THEN Ok(v)
    ELSE Raised("ValidationError", "Input should be a valid dictionary")

\* Variant: the handler goes on to the brief whatever the analysis holds.
CompleteAnalysisAfterFactsNoReturn(r) ==
    IF r.exc # "none" THEN [next |-> "respond", out |-> CatchAll(r)]
    ELSE IF BriefRequest(r.val).exc # "none"
    THEN [next |-> "respond", out |-> CatchAll(BriefRequest(r.val))]
    ELSE IF GenerateProductBriefBeforeCall(r.val).exc # "none"
    THEN [next |-> "respond", out |-> CatchAll(GenerateProductBriefBeforeCall(r.val))]
    ELSE [next |-> "brief", out |-> Ok(r.val)]

\* The handler between the return of prompt_to_json and the next completion
\* call: what it answers with, or that it goes on to generate the brief.
CompleteAnalysisAfterFacts(r) ==
    IF r.exc # "none" THEN [next |-> "respond", out |-> CatchAll(r)]
    ELSE LET has == ContainsError(r.val) IN
         IF has.exc # "none" THEN [next |-> "respond", out |-> CatchAll(has)]
         ELSE IF has.val = Bool("True") THEN [next |-> "respond", out |-> Ok(r.val)]
         ELSE IF BriefRequest(r.val).exc # "none"
         THEN [next |-> "respond", out |-> CatchAll(BriefRequest(r.val))]
         ELSE IF GenerateProductBriefBeforeCall(r.val).exc # "none"
         THEN [next |-> "respond", out |-> CatchAll(GenerateProductBriefBeforeCall(r.val))]
         ELSE [next |-> "brief", out |-> Ok(r.val)]

\* Variant: only the brief is returned.
CompleteAnalysisAfterBriefOnly(json, b) ==
    IF b.exc # "none" THEN CatchAll(b) ELSE Ok(b.val)

\* The handler from the return of generate_product_brief on.
CompleteAnalysisAfterBrief(json, b) ==
    IF b.exc # "none" THEN CatchAll(b)
    ELSE Ok(Dict(<< <<Str("analysis"), json>>, <<Str("product_brief"), b.val>> >>))

(***************************************************************************)
(* What the framework sends for a handler's outcome.                       *)
(***************************************************************************)
\* A handler that returns is answered with status 200 and the value as the
\* JSON body; an HTTPException with its status_code and {"detail": detail}.
\* A returned value that cannot be encoded as JSON, like an exception that
\* is no HTTPException, is answered by the framework's own error response.
\* An exception that is no Exception is not answered at all.
NoResponse == [status |-> 0, body |-> NoneV]
InternalServerError == [status |-> ServerError, body |-> Str("Internal Server Error")]
HttpResponse(out) ==
    IF out.exc = "none"
    THEN IF Serializable(out.val) THEN [status |-> 200, body |-> out.val]
         ELSE InternalServerError
    ELSE IF out.exc = "HTTPException"
    THEN [status |-> ServerError, body |-> Dict(<< <<Str("detail"), Str(out.msg)>> >>)]
    ELSE IF IsException(out.exc) THEN InternalServerError
    ELSE NoResponse

(***************************************************************************)
(* The state of the process and of the request it is handling.  The        *)
(* completion client is synchronous, so a handler holds the event loop     *)
(* from its first line to its return: one request is in progress at a time.*)
(***************************************************************************)
VARIABLES
    env,            \* the value of API_KEY in the environment
    proc,           \* "loading", "failed", "serving" or "crashed"
    api_key,        \* the module global api_key
    endpoint,       \* the handler in progress, or "none"
    pc,             \* "idle", "facts_call", "brief_call" or "responded"
    request,        \* the request body of the handler in progress
    calls,          \* the completion calls of this request, with their replies
    decoded,        \* the texts this request has decoded, by which decoder
    json_response,  \* complete_analysis: what prompt_to_json returned
    response,       \* the HTTP response of the request
    served,         \* requests answered so far
    executed        \* some completion text has been run as code

vars == <<env, proc, api_key, endpoint, pc, request, calls, decoded,
          json_response, response, served, executed>>

NoJson == [set |-> FALSE, val |-> NoneV]

Init ==
    /\ env \in EnvValues
    /\ proc = "loading"
    /\ api_key = NoneV
    /\ endpoint = "none"
    /\ pc = "idle"
    /\ request = [fields |-> NoInput, context |-> NoContext]
    /\ calls = <<>>
    /\ decoded = <<>>
    /\ json_response = NoJson
    /\ response = NoResponse
    /\ served = 0
    /\ executed = FALSE

\* Module import: api_key = load_api_key(); client = OpenAI(api_key=...).
Startup ==
    /\ proc = "loading"
    /\ LET k == LoadApiKey(env) IN
         IF k.exc = "none"
         THEN proc' = "serving" /\ api_key' = k.val
         ELSE proc' = "failed" /\ api_key' = api_key
    /\ UNCHANGED <<env, endpoint, pc, request, calls, decoded, json_response,
                   response, served, executed>>

\* client.chat.completions.create(model=..., messages=[prompt], max_tokens=n)
Create(prompt, n) ==
    [model |-> "gpt-4o", prompt |-> prompt, max_tokens |-> n,
     api_key |-> api_key, reply |-> Pending]

Accepting == proc = "serving" /\ pc = "idle" /\ served < MaxRequests
Answered(reply) == [calls EXCEPT ![Len(calls)].reply = reply]
Decoded(by, content, r) ==
    [by |-> by, content |-> content, accepted |-> r.exc = "none"]

\* The handler's outcome becomes the response; an exception that escapes
\* the handler and is no Exception ends the process.
Finish(out) ==
    /\ response' = HttpResponse(out)
    /\ pc' = "responded"
    /\ proc' = IF out.exc # "none" /\ ~IsException(out.exc) THEN "crashed" ELSE proc

\* POST /prompt_to_json, up to the completion call.
ReceivePromptToJson(fields) ==
    /\ Accepting
    /\ endpoint' = "prompt_to_json"
    /\ request' = [fields |-> fields, context |-> NoContext]
    /\ calls' = <<Create(FactsPrompt(fields), FactsMaxTokens)>>
    /\ pc' = "facts_call"
    /\ UNCHANGED <<env, proc, api_key, decoded, json_response, response, served, executed>>

\* POST /prompt_to_json, from the completion call's return to the response.
PromptToJsonReturns(reply) ==
    /\ endpoint = "prompt_to_json" /\ pc = "facts_call"
    /\ LET out == PromptToJsonAfterCall(reply) IN
         /\ Finish(out)
         /\ executed' = (executed \/ out.ran)
    /\ calls' = Answered(reply)
    /\ decoded' = IF Len(reply.choices) > 0
                  THEN <<Decoded("eval", reply.choices[1], PyEval(reply.choices[1]))>>
                  ELSE <<>>
    /\ UNCHANGED <<env, api_key, endpoint, request, json_response, served>>

\* POST /generate_product_brief, up to the completion call.
ReceiveGenerateProductBrief(context) ==
    /\ Accepting
    /\ endpoint' = "generate_product_brief"
    /\ request' = [fields |-> NoInput, context |-> context]
    /\ LET pre == GenerateProductBriefBeforeCall(context) IN
         IF pre.exc = "none"
         THEN /\ calls' = <<Create(BriefPrompt(context), BriefMaxTokens)>>
              /\ pc' = "brief_call"
              /\ UNCHANGED <<proc, response>>
         ELSE /\ calls' = <<>>
              /\ Finish(pre)
    /\ UNCHANGED <<env, api_key, decoded, json_response, served, executed>>

\* POST /generate_product_brief, from the completion call's return on.
GenerateProductBriefReturns(reply) ==
    /\ endpoint = "generate_product_brief" /\ pc = "brief_call"
    /\ Finish(GenerateProductBriefAfterCall(reply))
    /\ calls' = Answered(reply)
    /\ decoded' = IF reply.kind = "response"
                  THEN <<Decoded("json.loads", BriefMessage(reply),
                                 JsonLoads(BriefMessage(reply)))>>
                  ELSE <<>>
    /\ UNCHANGED <<env, api_key, endpoint, request, json_response, served, executed>>

\* POST /complete_analysis, up to the completion call of prompt_to_json.
ReceiveCompleteAnalysis(fields) ==
    /\ Accepting
    /\ endpoint' = "complete_analysis"
    /\ request' = [fields |-> fields, context |-> NoContext]
    /\ calls' = <<Create(FactsPrompt(fields), FactsMaxTokens)>>
    /\ pc' = "facts_call"
    /\ UNCHANGED <<env, proc, api_key, decoded, json_response, response, served, executed>>

\* POST /complete_analysis: prompt_to_json returns or raises, and the
\* handler answers or goes on to the completion call of the brief.
CompleteAnalysisFactsReturn(reply) ==
    /\ endpoint = "complete_analysis" /\ pc = "facts_call"
    /\ LET r == PromptToJsonAfterCall(reply)
           step == CompleteAnalysisAfterFacts(r)
       IN /\ json_response' = IF r.exc = "none" THEN [set |-> TRUE, val |-> r.val]
                              ELSE NoJson
          /\ executed' = (executed \/ r.ran)
          /\ IF step.next = "brief"
             THEN /\ calls' = Append(Answered(reply),
                                     Create(BriefPrompt(step.out.val), BriefMaxTokens))
                  /\ pc' = "brief_call"
                  /\ UNCHANGED <<proc, response>>
             ELSE /\ calls' = Answered(reply)
                  /\ Finish(step.out)
    /\ decoded' = IF Len(reply.choices) > 0
                  THEN <<Decoded("eval", reply.choices[1], PyEval(reply.choices[1]))>>
                  ELSE <<>>
    /\ UNCHANGED <<env, api_key, endpoint, request, served>>

\* POST /complete_analysis: generate_product_brief returns or raises.
CompleteAnalysisBriefReturns(reply) ==
    /\ endpoint = "complete_analysis" /\ pc = "brief_call"
    /\ Finish(CompleteAnalysisAfterBrief(json_response.val,
                                         GenerateProductBriefAfterCall(reply)))
    /\ calls' = Answered(reply)
    /\ decoded' = IF reply.kind = "response"
                  THEN Append(decoded, Decoded("json.loads", BriefMessage(reply),
                                               JsonLoads(BriefMessage(reply))))
                  ELSE decoded
    /\ UNCHANGED <<env, api_key, endpoint, request, json_response, served, executed>>

\* The response is sent and the request's objects are dropped.
SendResponse ==
    /\ pc = "responded"
    /\ pc' = "idle"
    /\ endpoint' = "none"
    /\ request' = [fields |-> NoInput, context |-> NoContext]
    /\ calls' = <<>>
    /\ decoded' = <<>>
    /\ json_response' = NoJson
    /\ response' = NoResponse
    /\ served' = served + 1
    /\ UNCHANGED <<env, proc, api_key, executed>>

Next ==
    \/ Startup
    \/ \E f \in Inputs : ReceivePromptToJson(f)
    \/ \E r \in Replies : PromptToJsonReturns(r)
    \/ \E c \in Contexts : ReceiveGenerateProductBrief(c)
    \/ \E r \in Replies : GenerateProductBriefReturns(r)
    \/ \E f \in Inputs : ReceiveCompleteAnalysis(f)
    \/ \E r \in Replies : CompleteAnalysisFactsReturn(r)
    \/ \E r \in Replies : CompleteAnalysisBriefReturns(r)
    \/ SendResponse

Spec == Init /\ [][Next]_vars

(***************************************************************************)
(* Properties.                                                             *)
(***************************************************************************)
FactKeys == {"industry", "product", "website", "minimum_viable_product"}
Responded(e) == endpoint = e /\ pc = "responded"
IsSuccess == response.status = 200
IsServerError ==
    /\ response.status = ServerError
    /\ response.body.kind = "dict"
    /\ Keys(response.body) = {Str("detail")}
\* A mapping whose keys are exactly the strings of ks.
MappingOf(v, ks) ==
    v.kind = "dict" /\ Keys(v) = {Str(k) : k \in ks} /\ Len(v.items) = Cardinality(ks)
HasErrorKey(v) == v.kind = "dict" /\ Str("error") \in Keys(v)
BriefCalls == {i \in 1..Len(calls) : calls[i].prompt.template = "brief"}
FactsCalls == {i \in 1..Len(calls) : calls[i].prompt.template = "facts"}
\* The completion call returned a response with at least one choice.
Replied(i) == calls[i].reply.kind = "response" /\ Len(calls[i].reply.choices) > 0
EmptyReply(i) == calls[i].reply.kind = "response" /\ Len(calls[i].reply.choices) = 0

\* C1: every success-status result of prompt_to_json is a mapping with
\* exactly the four fact keys or a mapping with exactly the key "error".
C1_AnalyzeResultShape ==
    (Responded("prompt_to_json") /\ IsSuccess)
        => \/ MappingOf(response.body, FactKeys)
           \/ MappingOf(response.body, {"error"})

\* C2: in complete_analysis, when the result of prompt_to_json has the
\* "error" key, no completion call for the brief is issued and that result
\* is the response, unchanged.
C2_ShortCircuit ==
    (endpoint = "complete_analysis" /\ json_response.set /\ HasErrorKey(json_response.val))
        => /\ BriefCalls = {}
           /\ pc = "responded"
           /\ response = [status |-> 200, body |-> json_response.val]
C2_Witness ==
    /\ Responded("complete_analysis")
    /\ json_response.set /\ HasErrorKey(json_response.val)
    /\ Len(calls) = 1 /\ Replied(1)
    /\ calls[1].reply.choices[1] = ErrorObject

C4_GatewayFailurePropagates ==
    (Responded("prompt_to_json") /\ calls[1].reply.kind = "raise")
        => /\ IsServerError
           /\ response.body.items[1][2] =
                 Str("Error occurred while getting response from API: "
                     \o calls[1].reply.msg)
           /\ ~IsSuccess
C4_Witness ==
    /\ Responded("prompt_to_json")
    /\ calls[1].reply.kind = "raise" /\ calls[1].reply.exc = "APIConnectionError"
    /\ response.status = ServerError

\* C5 (as claimed): in every endpoint, a completion response with an empty
\* choice list ends the request with status 500.
C5_EmptyChoicesIsServerError ==
    (pc = "responded" /\ \E i \in 1..Len(calls) : EmptyReply(i)) => IsServerError
\* C5 (amended): an empty choice list ends the request with status 500 when
\* it answers the brief call; when it answers the facts call the request
\* ends with success status and the {"error": "No response received ..."}
\* payload, and no brief call follows.
C5_EmptyChoices ==
    \A i \in 1..Len(calls) :
        (pc = "responded" /\ EmptyReply(i))
            => IF i \in BriefCalls THEN IsServerError
               ELSE /\ response = [status |-> 200, body |-> NoResponseError]
                    /\ Len(calls) = 1
C5_Witness ==
    /\ Responded("complete_analysis")
    /\ Len(calls) = 1 /\ EmptyReply(1)
    /\ response = [status |-> 200, body |-> NoResponseError]

\* C6: when the text returned for the brief call is not decodable as JSON,
\* generate_product_brief ends with status 500, and so does
\* complete_analysis, which does not answer with the analysis alone.
C6_BriefParseFailurePropagates ==
    \A i \in BriefCalls :
        (pc = "responded" /\ calls[i].reply.kind = "response"
                          /\ ~decoded[Len(decoded)].accepted)
            => /\ IsServerError
               /\ ~IsSuccess
               /\ json_response.set => response.body # json_response.val
C6_Witness ==
    /\ Responded("complete_analysis")
    /\ Len(calls) = 2 /\ Replied(2) /\ calls[2].reply.choices[1] = FactsPython
    /\ ~decoded[2].accepted
    /\ response.status = ServerError

\* C7: with API_KEY absent or empty, startup fails: no handler runs, no
\* completion call is issued and no request is answered without a key.
KeyConfigured == ~env.isNone /\ env.s # ""
C7_NoServiceWithoutCredential ==
    /\ (proc \in {"serving", "crashed"} \/ endpoint # "none" \/ pc # "idle"
            \/ Len(calls) > 0 \/ served > 0)
         => (KeyConfigured /\ api_key = Str(env.s))
    /\ \A i \in 1..Len(calls) : calls[i].api_key.kind = "str" /\ calls[i].api_key.s # ""
    /\ (~KeyConfigured /\ proc # "loading") => proc = "failed"
C7_Witness == proc = "failed" /\ ~env.isNone /\ env.s = ""

\* C8: in complete_analysis, when the analysis has no error indicator and
\* the brief step succeeds, the response is a mapping with exactly the keys
\* analysis and product_brief: analysis is the result of prompt_to_json and
\* product_brief what the brief call, made with that result as its context,
\* decoded to.
C8_CombinedResult ==
    (/\ Responded("complete_analysis")
     /\ Len(calls) = 2 /\ calls[2].reply.kind = "response"
     /\ decoded[Len(decoded)].by = "json.loads" /\ decoded[Len(decoded)].accepted)
        => /\ json_response.set /\ ~HasErrorKey(json_response.val)
           /\ json_response.val = PyEval(calls[1].reply.choices[1]).val
           /\ calls[2].prompt.template = "brief"
           /\ calls[2].prompt.context = JsonDumps(json_response.val)
           /\ IsSuccess
           /\ MappingOf(response.body, {"analysis", "product_brief"})
           /\ response.body.items[1] = <<Str("analysis"), json_response.val>>
           /\ response.body.items[2] =
                 <<Str("product_brief"), JsonLoads(calls[2].reply.choices[1]).val>>
C8_Witness ==
    /\ Responded("complete_analysis")
    /\ Len(calls) = 2
    /\ calls[1].reply.choices = <<FactsPython>>
    /\ calls[2].reply.choices = <<BriefJson>>
    /\ IsSuccess
    /\ MappingOf(response.body, {"analysis", "product_brief"})

\* C9 (as claimed): no request issues more than one completion call.
C9_OneCallPerRequest == Len(calls) <= 1
\* C9 (amended): prompt_to_json and generate_product_brief issue exactly one
\* completion call per request; complete_analysis issues one for the facts
\* and, only when that returned a result without an error indicator, one
\* more for the brief; no call follows a call that failed.
C9_CallsPerRequest ==
    /\ endpoint \in {"prompt_to_json", "generate_product_brief"} => Len(calls) = 1
    /\ endpoint = "prompt_to_json" => FactsCalls = {1}
    /\ endpoint = "generate_product_brief" => BriefCalls = {1}
    /\ endpoint = "complete_analysis"
         => /\ Len(calls) \in {1, 2}
            /\ FactsCalls = {1}
            /\ Len(calls) = 2
                 => /\ calls[1].reply.kind = "response"
                    /\ json_response.set /\ ~HasErrorKey(json_response.val)
    /\ \A i \in 1..Len(calls) :
          /\ calls[i].reply.kind = "raise" => i = Len(calls)
          /\ calls[i].reply.kind = "pending"
                => (i = Len(calls) /\ pc \in {"facts_call", "brief_call"})
    /\ pc = "responded" => calls[Len(calls)].reply.kind # "pending"
C9_Witness ==
    /\ Responded("complete_analysis")
    /\ Len(calls) = 2
    /\ calls[2].reply.kind = "raise"

\* C10: both decoders accept exactly the texts that are valid JSON, and no
\* completion text is ever run as code.
C10_StrictJsonDecoding ==
    /\ \A i \in 1..Len(decoded) :
          decoded[i].accepted = (JsonLoads(decoded[i].content).exc = "none")
    /\ ~executed

====
